---- MODULE Spec2Model ----
(***************************************************************************)
(* Tensor<N> of src/main.cc: a rows x cols container kept in a             *)
(* pointer-of-pointers buffer that the three constructors allocate with    *)
(* new[] and the destructor releases with delete[].                        *)
(*                                                                         *)
(* The free store is the sequence heap: a pointer is an index into it, 0   *)
(* is the null pointer, and an array that was deleted stays in the         *)
(* sequence with live = FALSE so that a later use of it can be seen.       *)
(* C++ indices are 0-based; cell k of an array is cells[k + 1].            *)
(***************************************************************************)
EXTENDS Integers, Sequences, FiniteSets, TLC

VARIABLES heap, src, obj, made, last, uaf

vars == <<heap, src, obj, made, last, uaf>>

\* Largest x and y passed to a constructor, and largest caller source.
MaxDim == 2

\* How many elements the caller overwrites in its source after construction.
MaxWrites == 1

\* The two Tensor objects of a run: a is constructed, b is a copy of a.
Inst == {1, 2}

\* Families of source contents; every position holds a different value.
Patterns == {1, 2}

\* The value the caller writes over an element of its own source.
WriteVals == {7}

\* The content of an element new[] has not initialised, and of storage
\* that is read after its lifetime ended.
Uninit == -1

\* The null pointer.
Null == 0

\* The caller's value at position (i, j) of a source of family p.
SrcVal(p, i, j) == 100 * p + 10 * i + j

--------------------------------------------------------------------------

\* new T[n]: a fresh array of n uninitialised elements of type elem.
NewArray(h, elem, n, owner) ==
  Append(h, [elem |-> elem, cells |-> [k \in 1..n |-> Uninit],
             live |-> TRUE, rel |-> 0, owner |-> owner])

\* p[k] = v. A store past the end of the array is not modelled as growing it.
Store(h, p, k, v) ==
  IF p \in DOMAIN h /\ (k + 1) \in DOMAIN h[p].cells
  THEN [h EXCEPT ![p].cells[k + 1] = v]
  ELSE h

\* delete[] p: deleting the null pointer does nothing.
DeleteArray(h, p) ==
  IF p \in DOMAIN h
  THEN [h EXCEPT ![p].live = FALSE, ![p].rel = @ + 1]
  ELSE h

\* The values a read of p[k] can yield: the element when the array is alive
\* and the element exists; otherwise the read is undefined and yields the
\* stale content or anything else.
Load(h, p, k) ==
  IF p \in DOMAIN h /\ (k + 1) \in DOMAIN h[p].cells
  THEN IF h[p].live THEN {h[p].cells[k + 1]}
       ELSE {h[p].cells[k + 1], Uninit}
  ELSE {Uninit}

\* A read of p[k] touches storage whose lifetime has ended.
Dangling(h, p, k) ==
  ~ (p \in DOMAIN h /\ (k + 1) \in DOMAIN h[p].cells /\ h[p].live)

--------------------------------------------------------------------------
\* The caller's side: the source handed to a constructor.

NoSource ==
  [kind |-> "none", content |-> Null, vec |-> <<>>, sr |-> 0, sc |-> 0,
   pat |-> 0, writes |-> 0, released |-> FALSE]

RECURSIVE CallerRows(_, _, _, _, _, _)
\* The caller fills rows i .. sr - 1 of its own buffer: N* arrays of N.
CallerRows(h, content, i, sr, sc, p) ==
  IF i < sr
  THEN LET h1 == Append(h, [elem |-> "N",
                            cells |-> [k \in 1..sc |-> SrcVal(p, i, k - 1)],
                            live |-> TRUE, rel |-> 0, owner |-> "caller"])
       IN  CallerRows(Store(h1, content, i, Len(h1)), content, i + 1, sr, sc, p)
  ELSE h

\* The caller builds an sr x sc buffer `N** content` before the call.
CallerMakeBuffer(sr, sc, p) ==
  /\ src.kind = "none" /\ obj[1].st = "none"
  /\ LET h1 == NewArray(heap, "N*", sr, "caller")
     IN  /\ heap' = CallerRows(h1, Len(h1), 0, sr, sc, p)
         /\ src' = [NoSource EXCEPT !.kind = "buf", !.content = Len(h1),
                                    !.sr = sr, !.sc = sc, !.pat = p]
  /\ UNCHANGED <<obj, made, last, uaf>>

\* The caller builds an sr x sc `std::vector<std::vector<N>> content`.
CallerMakeVector(sr, sc, p) ==
  /\ src.kind = "none" /\ obj[1].st = "none"
  /\ src' = [NoSource EXCEPT
               !.kind = "vec",
               !.vec = [i \in 1..sr |-> [j \in 1..sc |-> SrcVal(p, i - 1, j - 1)]],
               !.sr = sr, !.sc = sc, !.pat = p]
  /\ UNCHANGED <<heap, obj, made, last, uaf>>

\* The values now in the caller's source, position by position.
SourceData ==
  IF src.kind = "buf" /\ ~ src.released
  THEN [i \in 0..(src.sr - 1) |-> [j \in 0..(src.sc - 1) |->
          heap[heap[src.content].cells[i + 1]].cells[j + 1]]]
  ELSE IF src.kind = "vec" /\ ~ src.released
  THEN [i \in 0..(src.sr - 1) |-> [j \in 0..(src.sc - 1) |-> src.vec[i + 1][j + 1]]]
  ELSE <<>>

--------------------------------------------------------------------------
\* The constructors (main.cc 11-48).

\* The member initialisers `rows(x), cols(y)`, and the same interchanged.
MemberInitSwapped(x, y) == [rows |-> y, cols |-> x]

MemberInit(x, y) == [rows |-> x, cols |-> y]

\* The inner loop's condition `j < y`, and the same stopping one short.
InnerCondShort(j, y) == j < y - 1

InnerCond(j, y) == j < y

RECURSIVE FillRow(_, _, _, _, _)
\* for (int j = ...; j < y; ++j) t[i][j] = vals[j];
FillRow(h, r, j, y, vals) ==
  IF InnerCond(j, y)
  THEN FillRow(Store(h, r, j, vals[j]), r, j + 1, y, vals)
  ELSE h

RECURSIVE CtorRows(_, _, _, _, _, _, _)
\* for (int i = ...; i < x; ++i) { t[i] = new N*[cols]; <inner loop> }
CtorRows(h, t, i, x, y, cols, rd) ==
  IF i < x
  THEN LET h1 == NewArray(h, "N*", cols, "tensor")
           r  == Len(h1)
           h2 == Store(h1, t, i, r)
       IN  CtorRows(FillRow(h2, r, 0, y, rd[i]), t, i + 1, x, y, cols, rd)
  ELSE h

\* A constructor's body: t = new N*[rows]; then the two loops. rd[i][j] is
\* the right-hand side of the assignment to t[i][j].
Construct(h, x, y, rd) ==
  LET m  == MemberInit(x, y)
      h1 == NewArray(h, "N*", m.rows, "tensor")
      t  == Len(h1)
  IN  [heap |-> CtorRows(h1, t, 0, x, y, m.cols, rd),
       rows |-> m.rows, cols |-> m.cols, t |-> t]

\* The right-hand sides of the three constructors.
ZeroLiteral(x, y) == [i \in 0..(x - 1) |-> [j \in 0..(y - 1) |-> Null]]

ReadBuffer(h, content, x, y) ==
  [i \in 0..(x - 1) |-> [j \in 0..(y - 1) |->
     h[h[content].cells[i + 1]].cells[j + 1]]]

ReadVector(vec, x, y) ==
  [i \in 0..(x - 1) |-> [j \in 0..(y - 1) |-> vec[i + 1][j + 1]]]

NoObject == [st |-> "none", rows |-> 0, cols |-> 0, t |-> Null, i |-> 0]

NotMade == [kind |-> "none", x |-> 0, y |-> 0, pat |-> 0, bufs |-> {}]

\* No destructor is part-way through: the program is single-threaded.
Idle == \A o \in Inst : obj[o].st # "dtor"

\* What a constructor call on object 1 leaves behind.
Built(c, kind, x, y, p) ==
  /\ heap' = c.heap
  /\ obj' = [obj EXCEPT ![1] = [st |-> "live", rows |-> c.rows, cols |-> c.cols,
                                t |-> c.t, i |-> 0]]
  /\ made' = [made EXCEPT ![1] = [kind |-> kind, x |-> x, y |-> y, pat |-> p,
                                  bufs |-> (Len(heap) + 1)..Len(c.heap)]]

\* Tensor(int x, int y)
TensorXY(x, y) ==
  /\ obj[1].st = "none"
  /\ Built(Construct(heap, x, y, ZeroLiteral(x, y)), "xy", x, y, 0)
  /\ UNCHANGED <<src, last, uaf>>

\* Tensor(int x, int y, N** content) with the pointer kept instead of copied.
TensorBufShallow(x, y) ==
  /\ obj[1].st = "none" /\ src.kind = "buf" /\ ~ src.released
  /\ x <= src.sr /\ y <= src.sc
  /\ obj' = [obj EXCEPT ![1] = [st |-> "live", rows |-> x, cols |-> y,
                                t |-> src.content, i |-> 0]]
  /\ made' = [made EXCEPT ![1] = [kind |-> "buf", x |-> x, y |-> y,
                                  pat |-> src.pat, bufs |-> {}]]
  /\ UNCHANGED <<heap, src, last, uaf>>

\* Tensor(int x, int y, N** content); the caller guarantees x <= sr, y <= sc.
TensorBuf(x, y) ==
  /\ obj[1].st = "none" /\ src.kind = "buf" /\ ~ src.released
  /\ x <= src.sr /\ y <= src.sc
  /\ Built(Construct(heap, x, y, ReadBuffer(heap, src.content, x, y)),
           "buf", x, y, src.pat)
  /\ UNCHANGED <<src, last, uaf>>

\* Tensor(int x, int y, std::vector<std::vector<N>> content): content is a
\* by-value copy of the caller's vector.
TensorVec(x, y) ==
  /\ obj[1].st = "none" /\ src.kind = "vec" /\ ~ src.released
  /\ x <= src.sr /\ y <= src.sc
  /\ LET content == src.vec
     IN  Built(Construct(heap, x, y, ReadVector(content, x, y)),
               "vec", x, y, src.pat)
  /\ UNCHANGED <<src, last, uaf>>

--------------------------------------------------------------------------
\* The accessors (main.cc 64-77).

NoCall ==
  [op |-> "none", o |-> 0, i |-> 0, j |-> 0, val |-> 0, pair |-> <<>>,
   trap |-> FALSE]

\* size(): `int s[2] = {rows, cols}; return s;`. s is an automatic array,
\* so the pointer returned refers to an array whose lifetime has ended.
SizeReturn(rows, cols) == [frame |-> <<rows, cols>>, alive |-> FALSE]

\* What the caller gets by reading the two ints through the pointer ret:
\* the pair, when the array is still alive; otherwise the read is undefined:
\* the frame may be intact, may have been overwritten, or the pointer may
\* have been replaced by null and the read traps.
ReadPair(ret) ==
  IF ret.alive
  THEN {[pair |-> ret.frame, trap |-> FALSE]}
  ELSE {[pair |-> ret.frame, trap |-> FALSE],
        [pair |-> <<Uninit, Uninit>>, trap |-> FALSE],
        [pair |-> <<>>, trap |-> TRUE]}

\* int* p = a.size(); then the caller reads p[0] and p[1].
Size(o) ==
  /\ Idle /\ obj[o].st = "live"
  /\ \E r \in ReadPair(SizeReturn(obj[o].rows, obj[o].cols)) :
       last' = [NoCall EXCEPT !.op = "size", !.o = o, !.pair = r.pair,
                              !.trap = r.trap]
  /\ UNCHANGED <<heap, src, obj, made, uaf>>

\* The values `t[x][y]` can yield.
Element(h, t, x, y) ==
  UNION {Load(h, r, y) : r \in Load(h, t, x)}

\* `t[x][y]` reads an array that has been released.
ElementDangling(h, t, x, y) ==
  Dangling(h, t, x) \/ \E r \in Load(h, t, x) : Dangling(h, r, y)

\* operator()(int x, int y): `return t[x][y];` with in-bounds x and y.
ElementAt(o, x, y) ==
  /\ Idle /\ obj[o].st = "live"
  /\ x < obj[o].rows /\ y < obj[o].cols
  /\ \E v \in Element(heap, obj[o].t, x, y) :
       last' = [NoCall EXCEPT !.op = "get", !.o = o, !.i = x, !.j = y, !.val = v]
  /\ uaf' = (uaf \/ ElementDangling(heap, obj[o].t, x, y))
  /\ UNCHANGED <<heap, src, obj, made>>

--------------------------------------------------------------------------
\* The caller changes or releases its source after the construction.

CallerWrite(i, j, v) ==
  /\ Idle /\ obj[1].st = "live"
  /\ src.kind \in {"buf", "vec"} /\ made[1].kind = src.kind
  /\ ~ src.released /\ src.writes < MaxWrites
  /\ i < src.sr /\ j < src.sc
  /\ IF src.kind = "buf"
     THEN /\ heap' = Store(heap, heap[src.content].cells[i + 1], j, v)
          /\ src' = [src EXCEPT !.writes = @ + 1]
     ELSE /\ src' = [src EXCEPT !.writes = @ + 1, !.vec[i + 1][j + 1] = v]
          /\ UNCHANGED heap
  /\ UNCHANGED <<obj, made, last, uaf>>

RECURSIVE CallerDeleteRows(_, _, _, _)
CallerDeleteRows(h, content, i, sr) ==
  IF i < sr
  THEN CallerDeleteRows(DeleteArray(h, h[content].cells[i + 1]), content, i + 1, sr)
  ELSE h

CallerRelease ==
  /\ Idle /\ obj[1].st = "live"
  /\ src.kind \in {"buf", "vec"} /\ made[1].kind = src.kind
  /\ ~ src.released
  /\ IF src.kind = "buf"
     THEN /\ heap' = DeleteArray(CallerDeleteRows(heap, src.content, 0, src.sr),
                                 src.content)
          /\ src' = [src EXCEPT !.released = TRUE]
     ELSE /\ src' = [src EXCEPT !.released = TRUE, !.vec = <<>>]
          /\ UNCHANGED heap
  /\ UNCHANGED <<obj, made, last, uaf>>

--------------------------------------------------------------------------
\* The destructor (main.cc 54-59), one delete[] per step.

\* The loop condition `i < rows`, the same stopping one short, and a loop
\* that never runs.
DtorLoopCondSkipLast(i, rows) == i < rows - 1

DtorLoopCondNever(i, rows) == i < 0

DtorLoopCond(i, rows) == i < rows

\* for (...; i < rows; ++i) delete[] t[i];
DtorRow(o) ==
  /\ obj[o].st \in {"live", "dtor"}
  /\ \A q \in Inst \ {o} : obj[q].st # "dtor"
  /\ DtorLoopCond(obj[o].i, obj[o].rows)
  /\ \E r \in Load(heap, obj[o].t, obj[o].i) : heap' = DeleteArray(heap, r)
  /\ uaf' = (uaf \/ Dangling(heap, obj[o].t, obj[o].i))
  /\ obj' = [obj EXCEPT ![o].st = "dtor", ![o].i = @ + 1]
  /\ UNCHANGED <<src, made, last>>

\* delete[] t; the object is gone.
DtorOuter(o) ==
  /\ obj[o].st \in {"live", "dtor"}
  /\ \A q \in Inst \ {o} : obj[q].st # "dtor"
  /\ ~ DtorLoopCond(obj[o].i, obj[o].rows)
  /\ heap' = DeleteArray(heap, obj[o].t)
  /\ obj' = [obj EXCEPT ![o].st = "dead"]
  /\ UNCHANGED <<src, made, last, uaf>>

\* Tensor b = a: the class declares no copy constructor, so the implicit one
\* copies rows, cols and the pointer t member by member.
Copy ==
  /\ Idle /\ obj[1].st = "live" /\ obj[2].st = "none"
  /\ obj' = [obj EXCEPT ![2] = [obj[1] EXCEPT !.i = 0]]
  /\ made' = [made EXCEPT ![2] = [made[1] EXCEPT !.kind = "copy", !.bufs = {}]]
  /\ UNCHANGED <<heap, src, last, uaf>>

--------------------------------------------------------------------------

Init ==
  /\ heap = <<>>
  /\ src = NoSource
  /\ obj = [o \in Inst |-> NoObject]
  /\ made = [o \in Inst |-> NotMade]
  /\ last = NoCall
  /\ uaf = FALSE

Next ==
  \/ \E sr \in 0..MaxDim, sc \in 0..MaxDim, p \in Patterns : CallerMakeBuffer(sr, sc, p)
  \/ \E sr \in 0..MaxDim, sc \in 0..MaxDim, p \in Patterns : CallerMakeVector(sr, sc, p)
  \/ \E x \in 0..MaxDim, y \in 0..MaxDim : TensorXY(x, y)
  \/ \E x \in 0..MaxDim, y \in 0..MaxDim : TensorBuf(x, y)
  \/ \E x \in 0..MaxDim, y \in 0..MaxDim : TensorVec(x, y)
  \/ \E o \in Inst : Size(o)
  \/ \E o \in Inst, x \in 0..MaxDim, y \in 0..MaxDim : ElementAt(o, x, y)
  \/ \E i \in 0..MaxDim, j \in 0..MaxDim, v \in WriteVals : CallerWrite(i, j, v)
  \/ CallerRelease
  \/ \E o \in Inst : DtorRow(o)
  \/ \E o \in Inst : DtorOuter(o)

\* One Tensor, its caller and its accessors.
Spec == Init /\ [][Next]_vars

NextCopy == Next \/ Copy

\* The same with the implicit copy constructor in use.
SpecCopy == Init /\ [][NextCopy]_vars

--------------------------------------------------------------------------
\* Properties.

\* The arrays object o reaches through t: the outer array and its rows.
Owned(o) ==
  IF obj[o].t \in DOMAIN heap
  THEN {obj[o].t} \cup {heap[obj[o].t].cells[k] : k \in DOMAIN heap[obj[o].t].cells}
  ELSE {}

\* The arrays that have been released.
Released(h) == {b \in DOMAIN h : ~ h[b].live}

\* C1: after Tensor(x, y, content), from a buffer or from a nested sequence
\* with at least x rows and y columns, operator()(i, j) returns the value the
\* caller supplied at (i, j), for every in-bounds (i, j).
C1_ElementAtReturnsSource ==
  (last.op = "get" /\ made[last.o].kind \in {"buf", "vec"})
    => last.val = SrcVal(made[last.o].pat, last.i, last.j)

\* C1 happens: an element off the diagonal was read from a Tensor built from
\* a nested sequence that is larger than the Tensor.
C1_Witness ==
  /\ last.op = "get" /\ made[1].kind = "vec"
  /\ last.i = 0 /\ last.j = 1 /\ made[1].y = 2
  /\ src.sr > made[1].x
  /\ last.val = SrcVal(src.pat, 0, 1)

\* C2: after Tensor(rows, cols) every slot holds an N value equal to zero,
\* not a null pointer, and operator()(i, j) is 0 for every in-bounds (i, j).
C2_SlotsHoldZeroOfN ==
  (made[1].kind = "xy" /\ obj[1].st = "live")
    => \A i \in 0..(obj[1].rows - 1), j \in 0..(obj[1].cols - 1) :
         LET r == heap[obj[1].t].cells[i + 1]
         IN  /\ heap[r].elem = "N"
             /\ heap[r].cells[j + 1] = 0
             /\ Element(heap, obj[1].t, i, j) = {0}

\* C3: size() after Tensor(rows, cols) yields (rows, cols), and that is the
\* pair the caller reads once size() has returned.
C3_SizeReadsShape ==
  (last.op = "size" /\ made[last.o].kind = "xy")
    => (~ last.trap /\ last.pair = <<made[last.o].x, made[last.o].y>>)

\* C4: while a Tensor is alive its storage has exactly `rows` outer slots,
\* each holding an allocated row of exactly `cols` initialised elements of
\* type N.
C4_StorageShape ==
  (obj[1].st = "live")
    => /\ heap[obj[1].t].live
       /\ Len(heap[obj[1].t].cells) = obj[1].rows
       /\ \A k \in 1..obj[1].rows :
            LET r == heap[obj[1].t].cells[k]
            IN  /\ r \in DOMAIN heap
                /\ heap[r].live
                /\ Len(heap[r].cells) = obj[1].cols
                /\ \A c \in 1..obj[1].cols : heap[r].cells[c] # Uninit
                /\ heap[r].elem = "N"

\* C5: once a constructed Tensor has been destroyed, every array its
\* constructor allocated (the outer one and each of the rows) has been
\* released exactly once: none is still allocated, none was released twice.
C5_ReleasedExactlyOnce ==
  /\ \A b \in DOMAIN heap : heap[b].owner = "tensor" => heap[b].rel <= 1
  /\ \A o \in Inst :
       obj[o].st = "dead"
         => /\ Cardinality(made[o].bufs) = made[o].x + 1
            /\ \A b \in made[o].bufs : heap[b].rel = 1 /\ ~ heap[b].live

\* C5 happens: a two-row Tensor built from a buffer has been destroyed.
C5_Witness ==
  /\ obj[1].st = "dead" /\ made[1].kind = "buf"
  /\ made[1].x = 2 /\ made[1].y = 2
  /\ Cardinality(made[1].bufs) = 3

\* C6: two distinct Tensor objects, obtained through the constructors and
\* the implicit copy, never share an array: an object that is alive reaches
\* only arrays that are still allocated, and no array is released twice.
C6_InstancesDisjoint ==
  /\ \A o1 \in Inst, o2 \in Inst :
       (o1 # o2 /\ obj[o1].st # "none" /\ obj[o2].st # "none")
         => Owned(o1) \cap Owned(o2) = {}
  /\ \A o \in Inst : obj[o].st = "live" => Owned(o) \cap Released(heap) = {}
  /\ \A b \in DOMAIN heap : heap[b].rel <= 1

\* C7: a constructor leaves the caller's source as it was, and once the
\* Tensor is built no change to, or release of, the caller's source changes
\* what operator()(i, j) returns for any in-bounds (i, j).
C7_SourceIndependent ==
  [][ /\ (obj[1].st = "none" /\ obj'[1].st = "live") => SourceData' = SourceData
      /\ (obj[1].st = "live" /\ SourceData' # SourceData)
           => /\ obj' = obj
              /\ \A x \in 0..(obj[1].rows - 1), y \in 0..(obj[1].cols - 1) :
                   Element(heap', obj[1].t, x, y) = Element(heap, obj[1].t, x, y)
    ]_vars

\* C7 happens: the caller has overwritten element (0, 0) of the buffer the
\* Tensor was built from, and the Tensor still holds the value supplied.
C7_Witness ==
  /\ obj[1].st = "live" /\ made[1].kind = "buf"
  /\ made[1].x >= 1 /\ made[1].y >= 1
  /\ src.writes > 0 /\ ~ src.released
  /\ SourceData[0][0] \in WriteVals
  /\ Element(heap, obj[1].t, 0, 0) = {SrcVal(made[1].pat, 0, 0)}

\* C8: rows and cols equal the x and y passed to the constructor in every
\* state of the object's life, and the destructor's loop runs over exactly
\* the number of rows the constructor allocated.
C8_ShapeFixed ==
  \A o \in Inst :
    obj[o].st # "none"
      => /\ obj[o].rows = made[o].x
         /\ obj[o].cols = made[o].y
         /\ obj[o].i <= Len(heap[obj[o].t].cells)
         /\ obj[o].st = "dead" => obj[o].i = Len(heap[obj[o].t].cells)

\* C8 happens: a 2 x 1 Tensor has been destroyed after two loop iterations.
C8_Witness ==
  /\ obj[1].st = "dead"
  /\ made[1].x = 2 /\ made[1].y = 1
  /\ obj[1].i = 2

\* C9: the destructor releases row i in its i-th step while the outer array
\* is still allocated, releases the outer array last, when every row has
\* been released, never reads released storage, and with rows = 0 releases
\* the outer array only.
C9_DtorOrder ==
  [][ \A o \in Inst :
        (obj[o].st \in {"live", "dtor"} /\ obj'[o].st \in {"dtor", "dead"}
           /\ obj'[o] # obj[o])
          => /\ ~ uaf'
             /\ obj'[o].st = "dtor"
                  => /\ heap[obj[o].t].live
                     /\ Released(heap') \ Released(heap)
                          = {heap[obj[o].t].cells[obj[o].i + 1]}
             /\ obj'[o].st = "dead"
                  => /\ Released(heap') \ Released(heap) = {obj[o].t}
                     /\ \A k \in 1..obj[o].rows :
                          heap[obj[o].t].cells[k] \in Released(heap)
                     /\ obj[o].rows = 0 => obj[o].st = "live"
    ]_vars

\* C9 happens: both rows of a two-row Tensor are released and the outer
\* array is not yet.
C9_Witness ==
  /\ obj[1].st = "dtor" /\ obj[1].rows = 2 /\ obj[1].i = 2
  /\ heap[obj[1].t].live
  /\ \A k \in 1..2 : ~ heap[heap[obj[1].t].cells[k]].live

\* C10: size() and operator() change neither the shape nor any element and
\* allocate or release nothing, and a call repeated with the same arguments
\* on the same Tensor gives the same result.
C10_AccessorsReadOnly ==
  [][ (last' # last)
        => /\ heap' = heap /\ obj' = obj
           /\ (last.op = last'.op /\ last.o = last'.o
                 /\ last.i = last'.i /\ last.j = last'.j)
                => (last'.val = last.val /\ last'.pair = last.pair
                      /\ last'.trap = last.trap)
    ]_vars

====
